---- MODULE Spec2Model ----
(***************************************************************************)
(* Model of src/POC.py ("Mimir POC"), a Streamlit page.                    *)
(*                                                                         *)
(* One session is modelled.  Every user interaction makes Streamlit run    *)
(* the changed widget's on_change callback and then the whole script from  *)
(* the top: a "render pass".  The script is single-threaded and blocks on  *)
(* each external call, so a pass is a user step that runs the script up to *)
(* its first external call, followed by one step per call returning or     *)
(* raising.  No user step is taken while a call is in flight.  The state   *)
(* that outlives a pass is st.session_state and the uploaded file; `pass`  *)
(* records what the current pass has done so far (elements rendered,       *)
(* external calls completed, how it ended).                                *)
(*                                                                         *)
(* Strings that are compared character-wise (passwords) are sequences of   *)
(* code points; all other strings are opaque.                              *)
(***************************************************************************)
EXTENDS Integers, Sequences, FiniteSets, TLC

\* ---------------------------------------------------------------- bounds
MaxLandmarks == 2      \* longest landmark_annotations list returned
MaxVoices    == 2      \* longest voice list returned by list_voices
MaxAttempts  == 2      \* wrong submissions counted (saturating)

\* ------------------------------------------------------------ environment
None == "None"

\* st.secrets["password"]: the configured secret, "s3"
Secret == <<115, 51>>

\* values a user may type into the password box:
\* "s3" (the secret), "x", "" (box cleared), and "é" (non-ASCII)
Entered == { Secret, <<120>>, <<>>, <<233>> }

ApiKeys    == { None, "key" }
Images     == { "img1", "img2" }
Labels     == { "Eiffel Tower", "Big Ben" }
Stories    == { "story1", "story2" }
VoiceNames == { "voiceA", "voiceB" }
Audios     == { "wav1" }

SeqsUpTo(S, n) == UNION { [1..k -> S] : k \in 0..n }

\* ------------------------------------------------------ src/POC.py 50-57
LANGUAGES == << "English", "Finnish", "Swedish", "Vietnamese", "Japanese" >>

LANGUAGE_CODES ==
    [ English    |-> "en-US",
      Finnish    |-> "fi-FI",
      Swedish    |-> "sv-SE",
      Vietnamese |-> "vi-VN",
      Japanese   |-> "ja-JP" ]

\* ----------------------------------------------------------- page elements
El(kind, data) == [kind |-> kind, data |-> data]

Kinds(page) == { page[i].kind : i \in 1..Len(page) }

\* st.session_state as a finite map; a key is absent when not in DOMAIN
Has(ss, k)    == k \in DOMAIN ss
Put(ss, k, v) == [x \in DOMAIN ss \cup {k} |-> IF x = k THEN v ELSE ss[x]]
Del(ss, k)    == [x \in DOMAIN ss \ {k} |-> ss[x]]
Get(ss, k, d) == IF Has(ss, k) THEN ss[k] ELSE d
EmptyState    == [x \in {} |-> TRUE]

\* ------------------------------------------------------ hmac.compare_digest
IsAscii(s) == \A i \in 1..Len(s) : s[i] < 128

\* str arguments must be ASCII-only, otherwise TypeError is raised
compare_digest(a, b) ==
    IF IsAscii(a) /\ IsAscii(b)
      THEN [raised |-> FALSE, val |-> (a = b)]
      ELSE [raised |-> TRUE,  val |-> FALSE]

\* ----------------------------------------------- check_password (23-44)
password_entered_lockout(ss) ==
    LET c == compare_digest(ss["password"], Secret) IN
    IF c.raised THEN [raised |-> TRUE, ss |-> ss]
    ELSE IF c.val /\ ~Has(ss, "password_correct")
      THEN [raised |-> FALSE,
            ss |-> Del(Put(ss, "password_correct", TRUE), "password")]
      ELSE [raised |-> FALSE, ss |-> Put(ss, "password_correct", FALSE)]

\* the on_change callback of the password box
password_entered(ss) ==
    LET c == compare_digest(ss["password"], Secret) IN
    IF c.raised THEN [raised |-> TRUE, ss |-> ss]
    ELSE IF c.val
      THEN [raised |-> FALSE,
            ss |-> Del(Put(ss, "password_correct", TRUE), "password")]
      ELSE [raised |-> FALSE, ss |-> Put(ss, "password_correct", FALSE)]

\* st.text_input(..., key="password"): a keyed widget registers its value
\* (initially the empty string) in session state when it is rendered
text_input(ss) == IF Has(ss, "password") THEN ss ELSE Put(ss, "password", <<>>)

check_password_always_prompts(ss) ==
    LET shown == <<El("text_input", "Password")>> IN
    IF Get(ss, "password_correct", FALSE)
      THEN [ret |-> TRUE, ss |-> text_input(ss), page |-> shown]
      ELSE [ret |-> FALSE, ss |-> text_input(ss),
            page |-> IF Has(ss, "password_correct")
                       THEN shown \o <<El("error", "Password incorrect")>>
                       ELSE shown]

check_password_open(ss) ==
    [ret |-> TRUE, ss |-> ss, page |-> <<>>]

check_password(ss) ==
    IF Get(ss, "password_correct", FALSE)
      THEN [ret |-> TRUE, ss |-> ss, page |-> <<>>]
      ELSE [ret |-> FALSE, ss |-> text_input(ss),
            page |-> IF Has(ss, "password_correct")
                       THEN << El("text_input", "Password"),
                               El("error", "Password incorrect") >>
                       ELSE << El("text_input", "Password") >>]

\* --------------------------------------------------- external services
\* An external call either raises (ok = FALSE) or returns val.
Raised(v)   == [ok |-> FALSE, val |-> v]
Returned(v) == [ok |-> TRUE,  val |-> v]

LandmarkLists == SeqsUpTo(Labels, MaxLandmarks)

\* list_voices for one of the five supported codes returns at least one
\* voice
VoiceLists == SeqsUpTo(VoiceNames, MaxVoices) \ { <<>> }

DetectionOutcomes == { Raised(<<>>) } \cup { Returned(l) : l \in LandmarkLists }
AgentOutcomes     == { Raised("") }   \cup { Returned(t) : t \in Stories }
VoicesOutcomes    == { Raised(<<>>) } \cup { Returned(v) : v \in VoiceLists }
SynthesisOutcomes == { Raised("") }   \cup { Returned(a) : a \in Audios }

\* the call the script is blocked in; op = "none" between passes
NoCall == [op |-> "none", args |-> ""]

\* one record per external call completed in the pass, in call order
Completed(c, outcome) ==
    [op |-> c.op, args |-> c.args, ok |-> outcome.ok, ret |-> outcome.val]

\* st.selectbox(label, options) returns the selected option, None when
\* there are no options; Choices are the positions a user can select
Choices(options) == IF options = <<>> THEN {0} ELSE 1..Len(options)

selectbox(options, i) == IF i = 0 THEN None ELSE options[i]

\* ------------------------------------------------- the script (14-105)
api_key_missing_ignored(api_key) == FALSE

\* line 18
api_key_missing(api_key) == api_key = None

\* lines 99-105: main up to the landmark_detection call
main(image_file) ==
    IF image_file = None
      THEN [status |-> "done", call |-> NoCall]
      ELSE [status |-> "running",
            call |-> [op |-> "landmark_detection", args |-> image_file]]

\* One run of the script from the top on session state ss, up to the first
\* external call: the session state it leaves, what it rendered and where
\* it stands
Script(key, ss, image) ==
    LET head == <<El("title", "Mimir POC")>> IN
    IF api_key_missing(key)
      THEN [ss |-> ss, call |-> NoCall,
            out |-> [gate |-> "skipped", status |-> "stopped",
                     page |-> head \o <<El("error", "API_KEY not set")>>,
                     calls |-> <<>>]]
      ELSE
        LET g == check_password(ss) IN
        IF ~g.ret
          THEN [ss |-> g.ss, call |-> NoCall,
                out |-> [gate |-> "locked", status |-> "stopped",
                         page |-> head \o g.page, calls |-> <<>>]]
          ELSE
            LET m == main(image) IN
            [ss |-> g.ss, call |-> m.call,
             out |-> [gate |-> "unlocked", status |-> m.status,
                      page |-> head \o g.page
                                    \o <<El("file_uploader", "Upload image")>>,
                      calls |-> <<>>]]

\* ------------------------------------------------------- main (105-153)
has_landmarks_always(annotations) == Len(annotations) >= 0

\* line 120
has_landmarks(annotations) == Len(annotations) >= 1

voice_params_english(language, voice_name) ==
    [language_code |-> "en-US", name |-> voice_name]

\* tts.VoiceSelectionParams(...), lines 143-146
voice_params(language, voice_name) ==
    [language_code |-> LANGUAGE_CODES[language], name |-> voice_name]

audio_element_silent(audio_content) ==
    [kind |-> "audio", data |-> audio_content, autoplay |-> FALSE]

\* st.audio(...), lines 149-153
audio_element(audio_content) ==
    [kind |-> "audio", data |-> audio_content, autoplay |-> TRUE]

\* ------------------------------------------------------------------ state
VARIABLES
    api_key,         \* os.getenv("GCP_API_KEY"), fixed for the process
    session_state,   \* st.session_state
    image_file,      \* value of the file uploader widget
    pass,            \* the current (or last) render pass
    call,            \* the external call the script is blocked in
    locals,          \* main's variables `language` and `result.data.story`
    wrong_attempts   \* submissions so far that differed from the secret

vars == << api_key, session_state, image_file, pass, call, locals,
           wrong_attempts >>

Min(a, b) == IF a < b THEN a ELSE b

Idle == call.op = "none"

OnPage(kind) == kind \in Kinds(pass.page)

Flag == Get(session_state, "password_correct", FALSE)

NoLocals == [language |-> None, story |-> ""]

\* the record kept of a pass: what the script did and the value submitted
\* in the password box, if the pass was triggered by one
PassOf(out, entered) == ("entered" :> entered) @@ out

Init ==
    /\ api_key \in ApiKeys
    /\ session_state = EmptyState
    /\ image_file = None
    /\ wrong_attempts = 0
    /\ call = NoCall
    /\ locals = NoLocals
    /\ pass = [status |-> "init", gate |-> "skipped", page |-> <<>>,
               calls |-> <<>>, entered |-> <<>>]

\* a new pass starts: the script runs on ss with upload img
RunScript(ss, img, entered) ==
    LET r == Script(api_key, ss, img) IN
    /\ session_state' = r.ss
    /\ pass' = PassOf(r.out, entered)
    /\ call' = r.call
    /\ locals' = NoLocals

\* ------------------------------------------------------------- user steps
\* Page load, or a rerun caused by anything but the password box and the
\* uploader (the "Rerun" menu entry, a change in a select box)
Rerun ==
    /\ Idle
    /\ RunScript(session_state, image_file, <<>>)
    /\ UNCHANGED << api_key, image_file, wrong_attempts >>

\* The user changes the password box to p: the widget value is stored,
\* password_entered runs, then the script.  An exception in the callback
\* ends the pass before the script runs.
Submit(p) ==
    /\ Idle
    /\ OnPage("text_input")
    /\ p # Get(session_state, "password", <<>>)
    /\ wrong_attempts' = IF p = Secret THEN wrong_attempts
                         ELSE Min(wrong_attempts + 1, MaxAttempts)
    /\ LET cb == password_entered(Put(session_state, "password", p)) IN
       IF cb.raised
         THEN /\ session_state' = cb.ss
              /\ pass' = [status |-> "callback_exception",
                          gate |-> "skipped",
                          page |-> <<El("exception", "TypeError")>>,
                          calls |-> <<>>, entered |-> <<p>>]
              /\ call' = NoCall
              /\ locals' = NoLocals
         ELSE RunScript(cb.ss, image_file, <<p>>)
    /\ UNCHANGED << api_key, image_file >>

\* The user puts a file into the uploader
Upload(img) ==
    /\ Idle
    /\ OnPage("file_uploader")
    /\ img # image_file
    /\ image_file' = img
    /\ RunScript(session_state, img, <<>>)
    /\ UNCHANGED << api_key, wrong_attempts >>

\* The user removes the uploaded file
Remove ==
    /\ Idle
    /\ OnPage("file_uploader")
    /\ image_file # None
    /\ image_file' = None
    /\ RunScript(session_state, None, <<>>)
    /\ UNCHANGED << api_key, wrong_attempts >>

\* ------------------------------------------- the script's external calls
Propagate_retry_once(outcome) ==
    IF \A i \in 1..Len(pass.calls) : pass.calls[i].op # call.op
      THEN /\ pass' = [pass EXCEPT
                         !.calls = @ \o <<Completed(call, outcome)>>]
           /\ UNCHANGED << call, locals >>
      ELSE /\ pass' = [pass EXCEPT
                         !.status = "exception",
                         !.calls = @ \o <<Completed(call, outcome)>>,
                         !.page = @ \o <<El("exception", call.op)>>]
           /\ call' = NoCall
           /\ UNCHANGED locals

\* The call in flight raises: nothing catches it, the pass ends with
\* Streamlit's exception box
Propagate(outcome) ==
    /\ pass' = [pass EXCEPT !.status = "exception",
                            !.calls = @ \o <<Completed(call, outcome)>>,
                            !.page = @ \o <<El("exception", call.op)>>]
    /\ call' = NoCall
    /\ UNCHANGED locals

\* lines 105-135: landmark_detection returns or raises; the image and one
\* markdown block per landmark are shown; with landmarks, the user's
\* landmark and language selections are read and the agent is called.
\* A landmark annotation is modelled by its description; score and
\* coordinates only feed the markdown text.
landmark_detection ==
    /\ call.op = "landmark_detection"
    /\ \E o \in DetectionOutcomes :
         IF ~o.ok THEN Propagate(o)
         ELSE
           LET annotations == o.val
               p1 == <<El("image", image_file)>> \o
                     [i \in 1..Len(annotations) |->
                         El("markdown", annotations[i])]
           IN
           IF has_landmarks(annotations)
             THEN \E i \in Choices(annotations), j \in Choices(LANGUAGES) :
                    LET landmark == selectbox(annotations, i)
                        language == selectbox(LANGUAGES, j)
                    IN
                    /\ pass' = [pass EXCEPT
                                  !.calls = @ \o <<Completed(call, o)>>,
                                  !.page = @ \o p1 \o
                                           << El("warning", "Select slowly"),
                                              El("selectbox", "Landmark"),
                                              El("selectbox", "Language") >>]
                    /\ call' = [op |-> "run_sync",
                                args |-> [landmark |-> landmark,
                                          language |-> language]]
                    /\ locals' = [locals EXCEPT !.language = language]
             ELSE /\ pass' = [pass EXCEPT
                                !.status = "done",
                                !.calls = @ \o <<Completed(call, o)>>,
                                !.page = @ \o p1]
                  /\ call' = NoCall
                  /\ UNCHANGED locals
    /\ UNCHANGED << api_key, session_state, image_file, wrong_attempts >>

\* lines 135-136: the agent returns the story or raises; list_voices is
\* called for the language's code
run_sync ==
    /\ call.op = "run_sync"
    /\ \E o \in AgentOutcomes :
         IF ~o.ok THEN Propagate(o)
         ELSE /\ pass' = [pass EXCEPT !.calls = @ \o <<Completed(call, o)>>]
              /\ locals' = [locals EXCEPT !.story = o.val]
              /\ call' = [op |-> "list_voices",
                          args |-> LANGUAGE_CODES[locals.language]]
    /\ UNCHANGED << api_key, session_state, image_file, wrong_attempts >>

\* lines 136-148: list_voices returns or raises; the user's voice selection
\* is read, the story is written and synthesize_speech is called
list_voices ==
    /\ call.op = "list_voices"
    /\ \E o \in VoicesOutcomes :
         IF ~o.ok THEN Propagate(o)
         ELSE \E k \in Choices(o.val) :
                LET voice_name == selectbox(o.val, k) IN
                /\ pass' = [pass EXCEPT
                              !.calls = @ \o <<Completed(call, o)>>,
                              !.page = @ \o << El("selectbox", "Voice"),
                                               El("write", locals.story) >>]
                /\ call' = [op |-> "synthesize_speech",
                            args |-> [text |-> locals.story,
                                      voice |-> voice_params(locals.language,
                                                             voice_name)]]
                /\ UNCHANGED locals
    /\ UNCHANGED << api_key, session_state, image_file, wrong_attempts >>

\* lines 141-153: synthesize_speech returns the audio or raises; the audio
\* player is rendered and the script ends
synthesize_speech ==
    /\ call.op = "synthesize_speech"
    /\ \E o \in SynthesisOutcomes :
         IF ~o.ok THEN Propagate(o)
         ELSE /\ pass' = [pass EXCEPT
                            !.status = "done",
                            !.calls = @ \o <<Completed(call, o)>>,
                            !.page = @ \o <<audio_element(o.val)>>]
              /\ call' = NoCall
              /\ UNCHANGED locals
    /\ UNCHANGED << api_key, session_state, image_file, wrong_attempts >>

Next ==
    \/ Rerun
    \/ \E p \in Entered : Submit(p)
    \/ \E img \in Images : Upload(img)
    \/ Remove
    \/ landmark_detection
    \/ run_sync
    \/ list_voices
    \/ synthesize_speech

Spec == Init /\ [][Next]_vars

TypeOK ==
    /\ api_key \in ApiKeys
    /\ DOMAIN session_state \subseteq { "password", "password_correct" }
    /\ image_file \in Images \cup { None }
    /\ wrong_attempts \in 0..MaxAttempts
    /\ pass.status \in { "init", "callback_exception", "stopped", "running",
                         "done", "exception" }
    /\ pass.gate \in { "skipped", "locked", "unlocked" }
    /\ call.op \in { "none", "landmark_detection", "run_sync", "list_voices",
                     "synthesize_speech" }

\* ----------------------------------------------------------- properties
CallsOf(op) == { i \in 1..Len(pass.calls) : pass.calls[i].op = op }

AudioElements == { i \in 1..Len(pass.page) : pass.page[i].kind = "audio" }

Range(f) == { f[x] : x \in DOMAIN f }

\* the calls the pass has issued: those completed and the one in flight
Issued ==
    [i \in 1..Len(pass.calls) |->
        [op |-> pass.calls[i].op, args |-> pass.calls[i].args]]
    \o (IF Idle THEN <<>> ELSE <<[op |-> call.op, args |-> call.args]>>)

\* the pass was triggered by submitting p in the password box
Submitted(p) == pass.entered = <<p>>

\* the script ran in the pass (it is neither the state before the first
\* pass nor a pass ended by an exception in the callback)
ScriptRan == pass.status \notin { "init", "callback_exception" }

ErrorShown ==
    \E i \in 1..Len(pass.page) :
        pass.page[i] = El("error", "Password incorrect")

FlagIsFalse ==
    /\ Has(session_state, "password_correct")
    /\ ~session_state["password_correct"]

\* C1: after a password submission has been compared with the secret,
\* matching or not, session state no longer holds the key "password".
C1_EnteredValueCleared ==
    (\E p \in Entered : Submitted(p) /\ ScriptRan)
        => ~Has(session_state, "password")

C3_WrongPasswordShowsError ==
    /\ \A p \in Entered \ { Secret } :
         Submitted(p) => /\ FlagIsFalse
                         /\ pass.gate = "locked"
                         /\ pass.status = "stopped"
                         /\ ErrorShown
    /\ pass.status # "init" => (ErrorShown <=> FlagIsFalse)

\* C4: in every pass in which the flag is unset or false, the file
\* uploader is not rendered and no external call is made.
C4_LockedInhibitsDownstream ==
    (pass.status # "init" /\ ~Flag)
        => /\ ~OnPage("file_uploader")
           /\ Issued = <<>>

C4_Witness ==
    /\ FlagIsFalse
    /\ pass.gate = "locked"
    /\ wrong_attempts >= 1

\* C5: when landmark detection returns zero landmarks, no further call is
\* made (no narration, voice listing or synthesis) and the pass ends
\* normally with only the title, the uploader and the image rendered.
C5_NoLandmarksNoNarration ==
    (/\ Len(pass.calls) >= 1
     /\ pass.calls[1].op = "landmark_detection"
     /\ pass.calls[1].ok
     /\ pass.calls[1].ret = <<>>)
        => /\ Len(Issued) = 1
           /\ pass.status = "done"
           /\ pass.page = << El("title", "Mimir POC"),
                             El("file_uploader", "Upload image"),
                             El("image", image_file) >>

C5_Witness ==
    /\ Len(pass.calls) = 1
    /\ pass.calls[1].op = "landmark_detection"
    /\ pass.calls[1].ok
    /\ pass.calls[1].ret = <<>>
    /\ pass.status = "done"

\* C6: with the API key absent every pass stops after the title and the
\* "API_KEY not set" error: no password prompt, session state untouched,
\* no uploader, no external call.
C6_MissingKeyHalts ==
    (api_key = None /\ pass.status # "init")
        => /\ pass.status = "stopped"
           /\ pass.gate = "skipped"
           /\ pass.page = << El("title", "Mimir POC"),
                             El("error", "API_KEY not set") >>
           /\ Issued = <<>>
           /\ session_state = EmptyState
           /\ image_file = None

C6_Witness ==
    /\ api_key = None
    /\ pass.status = "stopped"

\* C7: a finished unlocked pass with an upload in which detection returned
\* at least one landmark and no call failed made exactly the four calls
\* detection, narration, voice listing, synthesis, once each; the text
\* synthesized is the story the narration returned; exactly one audio
\* element is rendered, it autoplays and holds the synthesized audio.
C7_OneStoryOneAudio ==
    (/\ Idle
     /\ pass.gate = "unlocked"
     /\ image_file # None
     /\ Len(pass.calls) >= 1
     /\ \A i \in 1..Len(pass.calls) : pass.calls[i].ok
     /\ pass.calls[1].ret # <<>>)
        => /\ pass.status = "done"
           /\ [i \in 1..Len(pass.calls) |-> pass.calls[i].op]
                = << "landmark_detection", "run_sync", "list_voices",
                     "synthesize_speech" >>
           /\ pass.calls[4].args.text = pass.calls[2].ret
           /\ Cardinality(AudioElements) = 1
           /\ \A i \in AudioElements :
                /\ pass.page[i].autoplay = TRUE
                /\ pass.page[i].data = pass.calls[4].ret

C7_Witness ==
    /\ Idle
    /\ pass.status = "done"
    /\ Len(pass.calls) = 4
    /\ pass.calls[2].ret = "story2"
    /\ AudioElements # {}

\* C8: a call that raises is the last thing its pass does: it was made
\* once, nothing is in flight after it, the pass has ended with an
\* exception and without an audio element; and no step of a pass that
\* makes external calls changes session state, the flag included.
C8_FailureAborts ==
    /\ [](\A i \in 1..Len(pass.calls) :
            ~pass.calls[i].ok
              => /\ i = Len(pass.calls)
                 /\ Idle
                 /\ pass.status = "exception"
                 /\ Cardinality(CallsOf(pass.calls[i].op)) = 1
                 /\ AudioElements = {})
    /\ [][(pass'.calls # <<>> \/ ~Idle') => session_state' = session_state]_vars

C8_Witness ==
    /\ pass.status = "exception"
    /\ Len(pass.calls) = 4
    /\ ~pass.calls[4].ok
    /\ Flag

C10_LanguageConsistent ==
    /\ \A j \in 1..Len(LANGUAGES) : LANGUAGES[j] \in DOMAIN LANGUAGE_CODES
    /\ \A i \in 1..Len(Issued) :
         /\ Issued[i].op = "run_sync"
              => Issued[i].args.language \in Range(LANGUAGES)
         /\ Issued[i].op = "list_voices"
              => Issued[i].args = LANGUAGE_CODES[Issued[2].args.language]
         /\ Issued[i].op = "synthesize_speech"
              => /\ Issued[i].args.voice.language_code
                      = LANGUAGE_CODES[Issued[2].args.language]
                 /\ Issued[i].args.voice.language_code = Issued[3].args
                 /\ Issued[i].args.voice.name \in Range(pass.calls[3].ret)

C10_Witness ==
    /\ pass.status = "done"
    /\ Len(pass.calls) = 4
    /\ pass.calls[2].args.language = "Japanese"
    /\ pass.calls[4].args.voice = [language_code |-> "ja-JP",
                                   name |-> "voiceB"]

====
